---- MODULE Spec2Model ----
(***************************************************************************)
(* A model of the RSS reader in src/main.py: the command-line shell        *)
(* (main), the pipeline (rss_parser: parse_xml, extract_feed_data,         *)
(* filter_by_category, apply_limit, extract_item_data) and the two         *)
(* renderers (convert_to_json, format_plain_text).                         *)
(*                                                                         *)
(* Text is a sequence of one-character strings.  An output line is a       *)
(* sequence of tokens: the literal prefixes of the f-strings ("Feed:",     *)
(* "Title:", the newline "\n") are single tokens, followed by the          *)
(* characters of the interpolated value.  Python's None text of an XML     *)
(* element is the empty sequence: ElementTree never yields "" for an       *)
(* element's text, and findtext maps None to "".                           *)
(***************************************************************************)
EXTENDS Integers, Sequences, FiniteSets, TLC

VARIABLES
    pc,             \* position of the invocation
    args,           \* parsed command line: limit, json, category
    xml,            \* the fetched document
    channel,        \* rss_parser: the element parse_xml returned
    filtered,       \* rss_parser: items after the optional category filter
    limited,        \* rss_parser: items after apply_limit
    feed_data,      \* rss_parser: the feed metadata record
    plain_items,    \* rss_parser: the item records handed to the renderer
    feed_data_json, \* convert_to_json: the object that is serialised
    out,            \* the list of strings the renderer returned
    exc,            \* the exception rss_parser raised
    raised,         \* the exception that left main
    stdout,         \* what main printed
    rc,             \* main's return value
    raw,            \* an item's description text as found in the document
    desc,           \* extract_item_data's "description"
    line            \* format_plain_text's line for that description

vars == <<pc, args, xml, channel, filtered, limited, feed_data, plain_items,
          feed_data_json, out, exc, raised, stdout, rc, raw, desc, line>>

(***************************************************************************)
(* Bounds                                                                  *)
(***************************************************************************)
MaxItems == 2       \* items in a channel, and the range of --limit around it
MaxTextLen == 6     \* characters of a description given to strip_html_tags

Min(a, b) == IF a < b THEN a ELSE b
Max(a, b) == IF a > b THEN a ELSE b

\* All sequences over alphabet of length at most n.
Texts(alphabet, n) == UNION {[1..k -> alphabet] : k \in 0..n}

\* Python's `sub in s` for strings.
Contains(sub, s) ==
    \E i \in 0..(Len(s) - Len(sub)) :
        \A j \in 1..Len(sub) : s[i + j] = sub[j]

\* Concatenation of a sequence of sequences.
RECURSIVE Flatten(_)
Flatten(ss) == IF ss = <<>> THEN <<>> ELSE Head(ss) \o Flatten(Tail(ss))

(***************************************************************************)
(* strip_html_tags: re.sub(r'<[^>]+>', '', text).  The leftmost match is   *)
(* removed and the scan resumes after it.  A match starts at a '<' that is *)
(* followed by at least one character other than '>' and then a '>': the   *)
(* class [^>] admits '<', and cannot step over a '>', so the match ends at *)
(* the first '>' after its first inner character.                          *)
(***************************************************************************)
\* The pattern <[^<>]+>: the inner class also refuses '<'.
TagEndNoLt(s, i) ==
    IF s[i] = "<" /\ i + 1 <= Len(s) /\ s[i + 1] \notin {"<", ">"}
       /\ \E k \in (i + 2)..Len(s) :
            s[k] = ">" /\ \A j \in (i + 1)..(k - 1) : s[j] \notin {"<", ">"}
    THEN CHOOSE k \in (i + 2)..Len(s) :
            s[k] = ">" /\ \A j \in (i + 1)..(k - 1) : s[j] \notin {"<", ">"}
    ELSE 0

\* The index at which a match of <[^>]+> starting at i ends, 0 if none does.
TagEnd(s, i) ==
    IF s[i] = "<" /\ i + 1 <= Len(s) /\ s[i + 1] # ">"
       /\ \E k \in (i + 2)..Len(s) : s[k] = ">"
    THEN CHOOSE k \in (i + 2)..Len(s) :
            s[k] = ">" /\ \A j \in (i + 2)..(k - 1) : s[j] # ">"
    ELSE 0

RECURSIVE StripFrom(_, _)
StripFrom(s, i) ==
    IF i > Len(s) THEN <<>>
    ELSE IF TagEnd(s, i) # 0 THEN StripFrom(s, TagEnd(s, i) + 1)
    ELSE <<s[i]>> \o StripFrom(s, i + 1)

strip_html_tags(text) == StripFrom(text, 1)

(***************************************************************************)
(* html.unescape, on the named references that matter to the tag stripper: *)
(* a reference is one token of the raw text and becomes its character.     *)
(***************************************************************************)
UnescapeChar(c) ==
    CASE c = "&lt;" -> "<"
      [] c = "&gt;" -> ">"
      [] c = "&amp;" -> "&"
      [] OTHER -> c

html_unescape(text) == [i \in 1..Len(text) |-> UnescapeChar(text[i])]

(***************************************************************************)
(* The XML document tree (xml.etree.ElementTree).                          *)
(***************************************************************************)
Element(tag, text, children) ==
    [tag |-> tag, text |-> text, children |-> children]

Leaf(tag, text) == Element(tag, text, <<>>)

\* Python's None where an element is expected.
NoElement == Element("None", <<>>, <<>>)

\* Element.findall(tag): the direct children with that tag, in document order.
findall(elem, tag) == SelectSeq(elem.children, LAMBDA c : c.tag = tag)

\* Every descendant of elem with that tag, in document order (".//tag").
RECURSIVE Descendants(_, _)
Descendants(elem, tag) ==
    Flatten([i \in 1..Len(elem.children) |->
        (IF elem.children[i].tag = tag THEN <<elem.children[i]>> ELSE <<>>)
        \o Descendants(elem.children[i], tag)])

\* root.find(".//channel"): the first element with that tag at any depth.
find_anywhere(elem, tag) ==
    IF Descendants(elem, tag) = <<>> THEN NoElement
    ELSE Head(Descendants(elem, tag))

\* Element.find(tag): the first direct child with that tag, else None.
find(elem, tag) ==
    IF findall(elem, tag) = <<>> THEN NoElement ELSE Head(findall(elem, tag))

\* Element.findtext(tag, default): the first such child's text, "" for None.
findtext(elem, tag, default) ==
    IF find(elem, tag) = NoElement THEN default ELSE find(elem, tag).text

(***************************************************************************)
(* parse_xml.  A fetched text is the empty string, a document cut off      *)
(* before its closing tags ("<rss><channel>"), or a well-formed document   *)
(* with a root element.                                                    *)
(***************************************************************************)
NotFetched == [kind |-> "none", root |-> NoElement]
EmptyText == [kind |-> "empty", root |-> NoElement]
UnclosedText == [kind |-> "unclosed", root |-> NoElement]
Doc(root) == [kind |-> "doc", root |-> root]

NoExc == [kind |-> "none", msg |-> "none"]
NoChannelError ==
    [kind |-> "RSSParseError", msg |-> "No <channel> element found."]

\* ET.fromstring: expat's diagnostic for a text that is not well-formed.
ParseErrorOf(x) ==
    IF x.kind = "empty" THEN "no element found: line 1, column 0"
    ELSE "no element found: line 1, column 14"

\* parse_xml with the channel looked up at any depth (root.find(".//channel")).
parse_xml_anywhere(x) ==
    IF x.kind # "doc"
    THEN [exc |-> [kind |-> "RSSParseError", msg |-> ParseErrorOf(x)],
          channel |-> NoElement]
    ELSE IF find_anywhere(x.root, "channel") = NoElement
    THEN [exc |-> NoChannelError, channel |-> NoElement]
    ELSE [exc |-> NoExc, channel |-> find_anywhere(x.root, "channel")]

\* parse_xml without the `if channel is None` test: None is returned, and
\* extract_feed_data's channel.findtext raises AttributeError.
parse_xml_unchecked(x) ==
    IF x.kind # "doc"
    THEN [exc |-> [kind |-> "RSSParseError", msg |-> ParseErrorOf(x)],
          channel |-> NoElement]
    ELSE IF find(x.root, "channel") = NoElement
    THEN [exc |-> [kind |-> "AttributeError",
                   msg |-> "'NoneType' object has no attribute 'findtext'"],
          channel |-> NoElement]
    ELSE [exc |-> NoExc, channel |-> find(x.root, "channel")]

\* What parse_xml raises (exc) or returns (channel).
parse_xml(x) ==
    IF x.kind # "doc"
    THEN [exc |-> [kind |-> "RSSParseError", msg |-> ParseErrorOf(x)],
          channel |-> NoElement]
    ELSE IF find(x.root, "channel") = NoElement
    THEN [exc |-> NoChannelError, channel |-> NoElement]
    ELSE [exc |-> NoExc, channel |-> find(x.root, "channel")]

(***************************************************************************)
(* extract_feed_data, filter_by_category, apply_limit, extract_item_data   *)
(***************************************************************************)
FeedKeys == <<"title", "link", "lastBuildDate", "pubDate", "language",
              "managingEditor", "description", "category">>

ItemKeys == <<"title", "author", "pubDate", "link", "category", "description">>

\* [cat.text for cat in channel.findall("category") if cat.text]
CategoryTexts(ch) ==
    LET cats == SelectSeq(findall(ch, "category"), LAMBDA c : c.text # <<>>)
    IN  [i \in 1..Len(cats) |-> cats[i].text]

extract_feed_data(ch) ==
    [title |-> findtext(ch, "title", <<>>),
     link |-> findtext(ch, "link", <<>>),
     lastBuildDate |-> findtext(ch, "lastBuildDate", <<>>),
     pubDate |-> findtext(ch, "pubDate", <<>>),
     language |-> findtext(ch, "language", <<>>),
     managingEditor |-> findtext(ch, "managingEditor", <<>>),
     description |-> findtext(ch, "description", <<>>),
     category |-> CategoryTexts(ch)]

\* The filter with equality in place of `in`.
filter_by_category_exact(its, category) ==
    SelectSeq(its, LAMBDA item : category = findtext(item, "category", <<>>))

filter_by_category(its, category) ==
    SelectSeq(its, LAMBDA item :
        Contains(category, findtext(item, "category", <<>>)))

\* An Optional[int] / Optional[str] argument.
NoneArg(d) == [given |-> FALSE, v |-> d]
Some(v) == [given |-> TRUE, v |-> v]

\* The stop index Python's items[:n] slices to, for a list of length len.
SliceStop(len, n) == IF n < 0 THEN Max(len + n, 0) ELSE Min(n, len)

\* items[-limit:] in place of items[:limit]: the last items, not the first.
apply_limit_tail(its, limit) ==
    IF limit.given
    THEN SubSeq(its, Len(its) - SliceStop(Len(its), limit.v) + 1, Len(its))
    ELSE its

\* A negative limit treated as zero.
apply_limit_clamped(its, limit) ==
    IF limit.given
    THEN SubSeq(its, 1, IF limit.v < 0 THEN 0 ELSE Min(limit.v, Len(its)))
    ELSE its

apply_limit(its, limit) ==
    IF limit.given THEN SubSeq(its, 1, SliceStop(Len(its), limit.v)) ELSE its

extract_item_data(item) ==
    [title |-> findtext(item, "title", <<>>),
     author |-> findtext(item, "author", <<>>),
     pubDate |-> findtext(item, "pubDate", <<>>),
     link |-> findtext(item, "link", <<>>),
     category |-> findtext(item, "category", <<>>),
     description |->
        strip_html_tags(html_unescape(findtext(item, "description", <<>>)))]

\* rss_parser with the limit applied before the filter.
SelectItemsLimitFirst(its, category, limit) ==
    LET l == apply_limit(its, limit)
    IN  IF category.given /\ category.v # <<>>
        THEN filter_by_category(l, category.v) ELSE l

\* rss_parser, lines 174-176: `if category:` holds for a non-empty string.
FilterItems(its, category) ==
    IF category.given /\ category.v # <<>>
    THEN filter_by_category(its, category.v) ELSE its

\* rss_parser, lines 174-179: the items that are extracted and rendered.
SelectItems(its, category, limit) ==
    apply_limit(FilterItems(its, category), limit)

(***************************************************************************)
(* convert_to_json.  A dict is the sequence of its (key, value) pairs in   *)
(* insertion order.  None, "" and [] are all the empty sequence here.      *)
(***************************************************************************)
\* `val not in [None, "", []]`
NotEmpty(v) == v # <<>>

\* clean_dict: the pairs of d whose value is not empty.
clean_dict(d) ==
    SelectSeq([i \in 1..Len(ItemKeys) |-> <<ItemKeys[i], d[ItemKeys[i]]>>],
              LAMBDA p : NotEmpty(p[2]))

\* Lines 87-92: the feed-level pairs, in the fixed key order.
FeedPairs(fd) ==
    SelectSeq([i \in 1..Len(FeedKeys) |-> <<FeedKeys[i], fd[FeedKeys[i]]>>],
              LAMBDA p : NotEmpty(p[2]))

\* Lines 95-96: the cleaned items that are not the empty dict.
ItemsClean(its) ==
    SelectSeq([i \in 1..Len(its) |-> clean_dict(its[i])], LAMBDA d : d # <<>>)

\* Lines 94-98 with the test `if items_clean:` left out.
ItemsEntryUnguarded(its) ==
    IF its # <<>> THEN << <<"items", ItemsClean(its)>> >> ELSE <<>>

\* Lines 94-98: the "items" pair, when there is one.
ItemsEntry(its) ==
    IF its # <<>> /\ ItemsClean(its) # <<>>
    THEN << <<"items", ItemsClean(its)>> >> ELSE <<>>

\* The object convert_to_json builds and hands to json.dumps.
JsonObject(fd, its) == FeedPairs(fd) \o ItemsEntry(its)

\* sep.join(parts)
RECURSIVE Join(_, _)
Join(parts, sep) ==
    IF parts = <<>> THEN <<>>
    ELSE IF Len(parts) = 1 THEN Head(parts)
    ELSE Head(parts) \o sep \o Join(Tail(parts), sep)

\* json.dumps(obj, indent=2, ensure_ascii=False), as tokens.  No character
\* of the texts here needs escaping.
Indent(level) == <<"\n">> \o [i \in 1..(2 * level) |-> " "]
DumpString(str) == <<"\"">> \o str \o <<"\"">>
DumpList(elems, level) ==
    <<"[">> \o Indent(level + 1)
    \o Join(elems, <<",">> \o Indent(level + 1))
    \o Indent(level) \o <<"]">>
DumpItem(d, level) ==
    <<"{">> \o Indent(level + 1)
    \o Join([i \in 1..Len(d) |->
                DumpString(<<d[i][1]>>) \o <<":", " ">> \o DumpString(d[i][2])],
            <<",">> \o Indent(level + 1))
    \o Indent(level) \o <<"}">>
DumpValue(key, v) ==
    IF key = "category"
    THEN DumpList([i \in 1..Len(v) |-> DumpString(v[i])], 1)
    ELSE IF key = "items"
    THEN DumpList([i \in 1..Len(v) |-> DumpItem(v[i], 2)], 1)
    ELSE DumpString(v)
json_dumps(obj) ==
    IF obj = <<>> THEN <<"{", "}">>
    ELSE <<"{">> \o Indent(1)
         \o Join([i \in 1..Len(obj) |->
                    DumpString(<<obj[i][1]>>) \o <<":", " ">>
                    \o DumpValue(obj[i][1], obj[i][2])],
                 <<",">> \o Indent(1))
         \o Indent(0) \o <<"}">>

convert_to_json(fd, its) == <<json_dumps(JsonObject(fd, its))>>

(***************************************************************************)
(* format_plain_text                                                       *)
(***************************************************************************)
\* Lines 106-118: the feed header.
FeedLines(fd) ==
    << <<"Feed:">> \o fd.title >>
    \o << <<"Link:">> \o fd.link >>
    \o (IF fd.lastBuildDate # <<>>
        THEN << <<"LastBuildDate:">> \o fd.lastBuildDate >> ELSE <<>>)
    \o (IF fd.pubDate # <<>>
        THEN << <<"PublishDate:">> \o fd.pubDate >> ELSE <<>>)
    \o (IF fd.language # <<>>
        THEN << <<"Language:">> \o fd.language >> ELSE <<>>)
    \o (IF fd.category # <<>>
        THEN << <<"Categories:">> \o Join(fd.category, <<",">>) >> ELSE <<>>)
    \o (IF fd.managingEditor # <<>>
        THEN << <<"Editor:">> \o fd.managingEditor >> ELSE <<>>)
    \o << <<"Description:">> \o fd.description >>

\* The item block with the Author line written unconditionally.
ItemLinesAuthorAlways(item) ==
    << <<"\n", "Title:">> \o item.title >>
    \o << <<"Author:">> \o item.author >>
    \o (IF item.pubDate # <<>>
        THEN << <<"Published:">> \o item.pubDate >> ELSE <<>>)
    \o << <<"Link:">> \o item.link >>
    \o (IF item.category # <<>>
        THEN << <<"Categories:">> \o item.category >> ELSE <<>>)
    \o (IF item.description # <<>>
        THEN << <<>>, strip_html_tags(item.description) >> ELSE <<>>)

\* Lines 124-134: one item's lines.  The first is the single string
\* "\nTitle:<title>".
ItemLines(item) ==
    << <<"\n", "Title:">> \o item.title >>
    \o (IF item.author # <<>>
        THEN << <<"Author:">> \o item.author >> ELSE <<>>)
    \o (IF item.pubDate # <<>>
        THEN << <<"Published:">> \o item.pubDate >> ELSE <<>>)
    \o << <<"Link:">> \o item.link >>
    \o (IF item.category # <<>>
        THEN << <<"Categories:">> \o item.category >> ELSE <<>>)
    \o (IF item.description # <<>>
        THEN << <<>>, strip_html_tags(item.description) >> ELSE <<>>)

format_plain_text(fd, its) ==
    FeedLines(fd)
    \o (IF its # <<>> THEN << <<>> >> ELSE <<>>)
    \o Flatten([i \in 1..Len(its) |-> ItemLines(its[i])])

\* print("\n".join(lines))
Printed(lines) == Join(lines, <<"\n">>) \o <<"\n">>

(***************************************************************************)
(* The inputs                                                              *)
(***************************************************************************)
\* Category texts of an item: none, and texts that differ in case and length.
CatTexts == {<<>>, <<"a">>, <<"A">>, <<"a", "A">>, <<"A", "a">>}

\* The category children of an item: none, one, or two (the second "a").
ItemKinds ==
    {<<>>} \cup {<<t>> : t \in CatTexts} \cup {<<t, <<"a">>>> : t \in CatTexts}

\* The i-th item of a channel, titled by its position.
Item(i, cats) ==
    Element("item", <<>>,
            <<Leaf("title", <<ToString(i)>>)>>
            \o [j \in 1..Len(cats) |-> Leaf("category", cats[j])]
            \o <<Leaf("description", <<"&lt;", "b", ">", "d">>)>>)

ItemLists ==
    UNION {{[i \in 1..n |-> Item(i, k[i])] : k \in [1..n -> ItemKinds]} :
           n \in 0..MaxItems}

ChannelOf(title, its) ==
    Element("channel", <<>>,
            <<Leaf("title", title), Leaf("link", <<"L">>),
              Leaf("category", <<>>), Leaf("category", <<"c">>),
              Leaf("description", <<"D">>)>> \o its)

Rss(children) == Element("rss", <<>>, children)
Wrap(children) == Element("wrap", <<>>, children)
OneItem == <<Item(1, <<<<"a">>>>)>>

\* The texts requests.get may deliver.
Docs ==
    {EmptyText, UnclosedText, Doc(Rss(<<>>))}
    \cup {Doc(Rss(<<ChannelOf(<<"T">>, l)>>)) : l \in ItemLists}
    \cup {Doc(Rss(<<Wrap(<<ChannelOf(<<"T">>, OneItem)>>)>>)),
          Doc(Rss(<<Wrap(<<Wrap(<<ChannelOf(<<"T">>, OneItem)>>)>>)>>)),
          Doc(Rss(<<Leaf("other", <<>>), ChannelOf(<<"T">>, OneItem)>>)),
          Doc(Rss(<<Wrap(<<ChannelOf(<<"N">>, <<>>)>>),
                    ChannelOf(<<"T">>, OneItem)>>)),
          Doc(Rss(<<ChannelOf(<<"T">>, OneItem), ChannelOf(<<"U">>, <<>>)>>)),
          Doc(ChannelOf(<<"T">>, OneItem))}

Limits == {NoneArg(0)} \cup {Some(n) : n \in (0 - MaxItems - 1)..(MaxItems + 1)}
Categories ==
    {NoneArg(<<>>)} \cup {Some(c) : c \in {<<>>, <<"a">>, <<"A">>, <<"a", "A">>}}
ArgSets == [limit : Limits, json : BOOLEAN, category : Categories]

\* feed_data["items"] = plain_items (line 183)
WithItems(fd, its) ==
    [k \in DOMAIN fd \cup {"items"} |-> IF k = "items" THEN its ELSE fd[k]]

NoArgs == [limit |-> NoneArg(0), json |-> FALSE, category |-> NoneArg(<<>>)]
NoFeed == WithItems(extract_feed_data(NoElement), <<>>)

(***************************************************************************)
(* main                                                                    *)
(***************************************************************************)
Init ==
    /\ pc = "start"
    /\ args = NoArgs
    /\ xml = NotFetched
    /\ channel = NoElement
    /\ filtered = <<>>
    /\ limited = <<>>
    /\ feed_data = NoFeed
    /\ plain_items = <<>>
    /\ feed_data_json = <<>>
    /\ out = <<>>
    /\ exc = NoExc
    /\ raised = NoExc
    /\ stdout = <<>>
    /\ rc = -1
    /\ raw = <<>>
    /\ desc = <<>>
    /\ line = <<>>

\* Line 213: parser.parse_args(argv).
ParseArgs ==
    /\ pc = "start"
    /\ args' \in ArgSets
    /\ pc' = "args"
    /\ UNCHANGED <<xml, channel, filtered, limited, feed_data, plain_items,
                   feed_data_json, out, exc, raised, stdout, rc, raw, desc, line>>

\* Line 214: requests.get(...).text delivers a text.
Fetch ==
    /\ pc = "args"
    /\ xml' \in Docs
    /\ pc' = "fetched"
    /\ UNCHANGED <<args, channel, filtered, limited, feed_data, plain_items,
                   feed_data_json, out, exc, raised, stdout, rc, raw, desc, line>>

\* Line 214: requests.get raises.  The call stands before the try statement,
\* so the exception leaves main as it is.
FetchFails ==
    /\ pc = "args"
    /\ raised' = [kind |-> "ConnectionError", msg |-> "connection failed"]
    /\ pc' = "raised"
    /\ UNCHANGED <<args, xml, channel, filtered, limited, feed_data, plain_items,
                   feed_data_json, out, exc, stdout, rc, raw, desc, line>>

\* Lines 170 and 216: parse_xml raises within rss_parser, within the try.
RssParserRaises ==
    /\ pc = "fetched"
    /\ parse_xml(xml).exc # NoExc
    /\ exc' = parse_xml(xml).exc
    /\ pc' = "except"
    /\ UNCHANGED <<args, xml, channel, filtered, limited, feed_data, plain_items,
                   feed_data_json, out, raised, stdout, rc, raw, desc, line>>

\* Lines 170-189: rss_parser returns the rendered lines.
RssParserReturns ==
    /\ pc = "fetched"
    /\ parse_xml(xml).exc = NoExc
    /\ LET ch == parse_xml(xml).channel
           its == findall(ch, "item")
           sel == SelectItems(its, args.category, args.limit)
           plain == [i \in 1..Len(sel) |-> extract_item_data(sel[i])]
           fd == WithItems(extract_feed_data(ch), plain)
       IN  /\ channel' = ch
           /\ filtered' = FilterItems(its, args.category)
           /\ limited' = sel
           /\ plain_items' = plain
           /\ feed_data' = fd
           /\ feed_data_json' = IF args.json THEN JsonObject(fd, plain) ELSE <<>>
           /\ out' = IF args.json THEN convert_to_json(fd, plain)
                     ELSE format_plain_text(fd, plain)
    /\ pc' = "rendered"
    /\ UNCHANGED <<args, xml, exc, raised, stdout, rc, raw, desc, line>>

\* Lines 216-217: print the joined lines and return 0.
PrintAndReturn ==
    /\ pc = "rendered"
    /\ stdout' = Printed(out)
    /\ rc' = 0
    /\ pc' = "done"
    /\ UNCHANGED <<args, xml, channel, filtered, limited, feed_data, plain_items,
                   feed_data_json, out, exc, raised, raw, desc, line>>

\* Lines 218-219: raise UnhandledException(e).
Reraise ==
    /\ pc = "except"
    /\ raised' = [kind |-> "UnhandledException", msg |-> exc.msg]
    /\ pc' = "raised"
    /\ UNCHANGED <<args, xml, channel, filtered, limited, feed_data, plain_items,
                   feed_data_json, out, exc, stdout, rc, raw, desc, line>>

Next ==
    \/ ParseArgs
    \/ Fetch
    \/ FetchFails
    \/ RssParserRaises
    \/ RssParserReturns
    \/ PrintAndReturn
    \/ Reraise

Spec == Init /\ [][Next]_vars

(***************************************************************************)
(* The renderers on their own: rss_parser at line 186, with the feed       *)
(* record and the item records drawn from the values extraction can yield. *)
(***************************************************************************)
\* The non-empty value of a field: its own name and a mark, so that no two
\* fields carry the same text.  An item's description is a stripped text
\* that still holds a '<'.
FieldValue(k) ==
    IF k = "category" THEN <<"c", "a", "t">>
    ELSE IF k = "description" THEN strip_html_tags(<<"<", "b", ">", "d", "<">>)
    ELSE <<k, "!">>

\* The subsets of keys with all, all but one, one or no member.
Patterns(keys) ==
    {S \in SUBSET keys : Cardinality(S) <= 1 \/ Cardinality(keys \ S) <= 1}

Range(seq) == {seq[i] : i \in 1..Len(seq)}

ItemRecords ==
    {[k \in Range(ItemKeys) |-> IF k \in S THEN FieldValue(k) ELSE <<>>] :
        S \in Patterns(Range(ItemKeys))}

ItemRecordLists == UNION {[1..n -> ItemRecords] : n \in 0..MaxItems}

\* A feed's categories: the texts of its non-empty category elements.
FeedCategoryLists == {<<<<"c", "1">>>>, <<<<"c", "1">>, <<"c", "2">>>>}

FeedRecords ==
    {[k \in Range(FeedKeys) |->
        IF k \notin S THEN <<>> ELSE IF k = "category" THEN c ELSE <<k, "!">>] :
        S \in Patterns(Range(FeedKeys)), c \in FeedCategoryLists}

InitRender ==
    /\ pc = "extracted"
    /\ args \in [limit : {NoneArg(0)}, json : BOOLEAN, category : {NoneArg(<<>>)}]
    /\ plain_items \in ItemRecordLists
    /\ \E fd \in FeedRecords : feed_data = WithItems(fd, plain_items)
    /\ xml = NotFetched
    /\ channel = NoElement
    /\ filtered = <<>>
    /\ limited = <<>>
    /\ feed_data_json = <<>>
    /\ out = <<>>
    /\ exc = NoExc
    /\ raised = NoExc
    /\ stdout = <<>>
    /\ rc = -1
    /\ raw = <<>>
    /\ desc = <<>>
    /\ line = <<>>

\* Lines 186-187: return convert_to_json(feed_data, plain_items).
RenderJson ==
    /\ pc = "extracted"
    /\ args.json
    /\ feed_data_json' = JsonObject(feed_data, plain_items)
    /\ out' = convert_to_json(feed_data, plain_items)
    /\ pc' = "rendered"
    /\ UNCHANGED <<args, xml, channel, filtered, limited, feed_data, plain_items,
                   exc, raised, stdout, rc, raw, desc, line>>

\* Lines 188-189: return format_plain_text(feed_data, plain_items).
RenderPlain ==
    /\ pc = "extracted"
    /\ ~args.json
    /\ out' = format_plain_text(feed_data, plain_items)
    /\ pc' = "rendered"
    /\ UNCHANGED <<args, xml, channel, filtered, limited, feed_data, plain_items,
                   feed_data_json, exc, raised, stdout, rc, raw, desc, line>>

NextRender == RenderJson \/ RenderPlain \/ PrintAndReturn

SpecRender == InitRender /\ [][NextRender]_vars

(***************************************************************************)
(* An item's description on its way through extract_item_data (line 77)    *)
(* and format_plain_text (lines 132-134).                                  *)
(***************************************************************************)
RawAlphabet == {"<", ">", "a", "&lt;", "&gt;"}

InitStrip ==
    /\ pc = "item"
    /\ raw \in Texts(RawAlphabet, MaxTextLen)
    /\ desc = <<>>
    /\ line = <<>>
    /\ args = NoArgs
    /\ xml = NotFetched
    /\ channel = NoElement
    /\ filtered = <<>>
    /\ limited = <<>>
    /\ feed_data = NoFeed
    /\ plain_items = <<>>
    /\ feed_data_json = <<>>
    /\ out = <<>>
    /\ exc = NoExc
    /\ raised = NoExc
    /\ stdout = <<>>
    /\ rc = -1

\* Lines 77-78: strip_html_tags(html.unescape(item.findtext("description", ""))).
ExtractDescription ==
    /\ pc = "item"
    /\ desc' = strip_html_tags(html_unescape(raw))
    /\ pc' = "extracted"
    /\ UNCHANGED <<args, xml, channel, filtered, limited, feed_data, plain_items,
                   feed_data_json, out, exc, raised, stdout, rc, raw, line>>

\* Lines 132-134: the description line, when the description is not empty.
FormatDescription ==
    /\ pc = "extracted"
    /\ desc # <<>>
    /\ line' = strip_html_tags(desc)
    /\ pc' = "formatted"
    /\ UNCHANGED <<args, xml, channel, filtered, limited, feed_data, plain_items,
                   feed_data_json, out, exc, raised, stdout, rc, raw, desc>>

NextStrip == ExtractDescription \/ FormatDescription

SpecStrip == InitStrip /\ [][NextStrip]_vars

(***************************************************************************)
(* Properties of the pipeline (Spec)                                       *)
(***************************************************************************)
\* rss_parser ran on the fetched text.
ParserRan ==
    \/ pc \in {"except", "rendered", "done"}
    \/ pc = "raised" /\ raised.kind = "UnhandledException"

\* rss_parser returned.
ParserReturned == pc \in {"rendered", "done"}

\* The item children of the channel, in document order.
DocItems ==
    [j \in 1..Cardinality({i \in 1..Len(channel.children) :
                            channel.children[i].tag = "item"}) |->
        channel.children[
            CHOOSE i \in 1..Len(channel.children) :
                /\ channel.children[i].tag = "item"
                /\ Cardinality({m \in 1..(i - 1) :
                                 channel.children[m].tag = "item"}) = j - 1]]

\* The text of an element's first category child, "" when it has none.
FirstCategoryText(e) ==
    IF \E i \in 1..Len(e.children) : e.children[i].tag = "category"
    THEN e.children[CHOOSE i \in 1..Len(e.children) :
                        /\ e.children[i].tag = "category"
                        /\ \A m \in 1..(i - 1) : e.children[m].tag # "category"].text
    ELSE <<>>

\* The positions of the document's items whose category text contains c.
Matching(c) ==
    {i \in 1..Len(DocItems) : Contains(c, FirstCategoryText(DocItems[i]))}

\* The j-th smallest member of a set of positions.
Nth(S, j) == CHOOSE i \in S : Cardinality({m \in S : m < i}) = j - 1

CategoryGiven == args.category.given /\ args.category.v # <<>>

\* C1: with a non-empty category and a limit N >= 0, the items that reach the
\* renderer are the first min(N, k) of the k items that match the category, in
\* document order: the filter comes before the limit.
C1_FilterBeforeLimit ==
    (ParserReturned /\ CategoryGiven /\ args.limit.given /\ args.limit.v >= 0) =>
        LET M == Matching(args.category.v)
            n == Min(args.limit.v, Cardinality(M))
        IN  /\ Len(plain_items) = n
            /\ Len(limited) = n
            /\ \A j \in 1..n :
                /\ limited[j] = DocItems[Nth(M, j)]
                /\ plain_items[j].title = DocItems[Nth(M, j)].children[1].text
                /\ plain_items[j].category = FirstCategoryText(DocItems[Nth(M, j)])

\* A matching second item behind a non-matching first one, with --limit 1.
C1_Witness ==
    /\ pc = "rendered"
    /\ args.category = Some(<<"a">>)
    /\ args.limit = Some(1)
    /\ Len(DocItems) = 2
    /\ Matching(<<"a">>) = {2}
    /\ Len(plain_items) = 1
    /\ plain_items[1].title = <<"2">>

\* C2: for a limit N >= 0 apply_limit returns the first min(N, len) items in
\* their order; without a limit it returns the sequence as it is.
C2_LimitKeepsPrefix ==
    ParserReturned =>
        /\ (args.limit.given /\ args.limit.v >= 0) =>
            /\ Len(limited) = Min(args.limit.v, Len(filtered))
            /\ \A i \in 1..Len(limited) : limited[i] = filtered[i]
        /\ ~args.limit.given => limited = filtered

\* Two items and --limit 1: the first is kept, the second dropped.
C2_Witness ==
    /\ pc = "rendered"
    /\ args.limit = Some(1)
    /\ Len(filtered) = 2
    /\ limited = <<filtered[1]>>

\* C3: for a non-empty category C the filter keeps exactly the items whose
\* first category child's text contains C (case-sensitive), in their order;
\* an item without category text is dropped; without a category, or with the
\* empty one, nothing is filtered.
C3_FilterKeepsMatching ==
    ParserReturned =>
        /\ CategoryGiven =>
            LET M == Matching(args.category.v)
            IN  /\ Len(filtered) = Cardinality(M)
                /\ \A j \in 1..Len(filtered) : filtered[j] = DocItems[Nth(M, j)]
                /\ \A i \in 1..Len(DocItems) :
                    FirstCategoryText(DocItems[i]) = <<>> => i \notin M
        /\ ~CategoryGiven => filtered = DocItems

\* Category "a": the first item's first category is "A" (its second is "a"),
\* the second item's category "Aa" holds "a" as a proper substring.
C3_Witness ==
    /\ pc = "rendered"
    /\ args.category = Some(<<"a">>)
    /\ Len(DocItems) = 2
    /\ FirstCategoryText(DocItems[1]) = <<"A">>
    /\ Len(findall(DocItems[1], "category")) = 2
    /\ FirstCategoryText(DocItems[2]) = <<"A", "a">>
    /\ filtered = <<DocItems[2]>>

HasChannel(x) ==
    x.kind = "doc" /\ (x.root.tag = "channel" \/ Descendants(x.root, "channel") # <<>>)

\* The root's first child that is a channel.
FirstChannelChild(root) ==
    root.children[CHOOSE i \in 1..Len(root.children) :
                    /\ root.children[i].tag = "channel"
                    /\ \A m \in 1..(i - 1) : root.children[m].tag # "channel"]

HasChannelChild(root) ==
    \E i \in 1..Len(root.children) : root.children[i].tag = "channel"

\* C5 as stated: every input without a channel element, the empty string
\* included, fails with the 'no channel element found' error.
C5_Original ==
    (ParserRan /\ ~HasChannel(xml)) => exc = NoChannelError

\* C5: every well-formed input without a channel element fails with the
\* 'no channel element found' RSSParseError; the empty string is not
\* well-formed and fails with the RSSParseError that carries the XML parser's
\* own diagnostic.
C5_MissingChannel ==
    ParserRan =>
        /\ (xml.kind = "doc" /\ ~HasChannel(xml)) => exc = NoChannelError
        /\ xml.kind = "empty" =>
            /\ exc.kind = "RSSParseError"
            /\ exc.msg = "no element found: line 1, column 0"
            /\ exc # NoChannelError

\* <rss></rss> was fetched and the no-channel error left main, wrapped.
C5_Witness ==
    /\ pc = "raised"
    /\ xml = Doc(Rss(<<>>))
    /\ exc = NoChannelError
    /\ raised.msg = "No <channel> element found."

\* C6 as stated: the first channel element at any depth below the root is
\* found and returned; the no-channel error is raised only when there is none.
C6_Original ==
    (ParserRan /\ xml.kind = "doc") =>
        IF Descendants(xml.root, "channel") # <<>>
        THEN /\ exc = NoExc
             /\ ParserReturned => channel = Head(Descendants(xml.root, "channel"))
        ELSE exc = NoChannelError

\* C6: the first channel element among the root's children is found and
\* returned; the no-channel error is raised when the root has no such child,
\* also when a channel element lies deeper.
C6_DirectChildOnly ==
    (ParserRan /\ xml.kind = "doc") =>
        IF HasChannelChild(xml.root)
        THEN /\ exc = NoExc
             /\ ParserReturned
             /\ channel = FirstChannelChild(xml.root)
        ELSE exc = NoChannelError /\ ~ParserReturned

\* A channel two levels below the root: the no-channel error is raised.
C6_Witness ==
    /\ pc = "except"
    /\ xml.kind = "doc"
    /\ ~HasChannelChild(xml.root)
    /\ Descendants(xml.root, "channel") # <<>>
    /\ exc = NoChannelError

\* C7: every failure of main leaves it as UnhandledException with nothing
\* printed, and main returns 0 only after the pipeline succeeded and the
\* output was printed.
C7_EveryFailureWrapped ==
    /\ pc = "raised" => raised.kind = "UnhandledException" /\ stdout = <<>>
    /\ rc = 0 => pc = "done" /\ exc = NoExc /\ stdout = Printed(out)

(***************************************************************************)
(* Properties of the renderers (SpecRender)                                *)
(***************************************************************************)
JsonKeys == {feed_data_json[i][1] : i \in 1..Len(feed_data_json)}

\* The value the object holds under a key it has.
JsonValue(key) ==
    feed_data_json[CHOOSE i \in 1..Len(feed_data_json) :
                        feed_data_json[i][1] = key][2]

\* The positions of the item records with at least one non-empty field.
NonEmptyItems ==
    {i \in 1..Len(plain_items) :
        \E k \in Range(ItemKeys) : plain_items[i][k] # <<>>}

\* C4: the object convert_to_json builds holds no empty value: no feed-level
\* and no item-level key maps to an empty string or sequence, no item object
\* is empty, and "items" is present exactly when some item has a non-empty
\* field, holding those items in their order.
C4_NoEmptyJsonValue ==
    (pc \in {"rendered", "done"} /\ args.json) =>
        /\ Len(out) = 1
        /\ \A i \in 1..Len(feed_data_json) : feed_data_json[i][2] # <<>>
        /\ \A k \in Range(FeedKeys) : k \in JsonKeys <=> feed_data[k] # <<>>
        /\ \A k \in JsonKeys \ {"items"} : JsonValue(k) = feed_data[k]
        /\ JsonKeys \subseteq Range(FeedKeys) \cup {"items"}
        /\ "items" \in JsonKeys <=> NonEmptyItems # {}
        /\ "items" \in JsonKeys =>
            LET v == JsonValue("items")
            IN  /\ Len(v) = Cardinality(NonEmptyItems)
                /\ \A j \in 1..Len(v) :
                    /\ v[j] # <<>>
                    /\ \A q \in 1..Len(v[j]) : v[j][q][2] # <<>>
                    /\ {v[j][q] : q \in 1..Len(v[j])} =
                        {<<k, plain_items[Nth(NonEmptyItems, j)][k]>> :
                            k \in {x \in Range(ItemKeys) :
                                    plain_items[Nth(NonEmptyItems, j)][x] # <<>>}}

\* An item without any field before an item with a title only, in a feed
\* without a link: the object has "items" with the one surviving item.
C4_Witness ==
    /\ pc = "rendered"
    /\ args.json
    /\ feed_data.link = <<>>
    /\ feed_data.title # <<>>
    /\ Len(plain_items) = 2
    /\ NonEmptyItems = {2}
    /\ plain_items[2].author = <<>>
    /\ "items" \in JsonKeys
    /\ "link" \notin JsonKeys

Line(prefix, value) == <<prefix>> \o value
LineIf(prefix, value) == IF value = <<>> THEN <<>> ELSE <<Line(prefix, value)>>
Blank == <<>>

CommaJoined(cats) ==
    Flatten([i \in 1..Len(cats) |-> IF i = 1 THEN cats[i] ELSE <<",">> \o cats[i]])

\* The feed's lines, and the separator when there are items.
HeaderLines(fd, its) ==
    <<Line("Feed:", fd.title), Line("Link:", fd.link)>>
    \o LineIf("LastBuildDate:", fd.lastBuildDate)
    \o LineIf("PublishDate:", fd.pubDate)
    \o LineIf("Language:", fd.language)
    \o (IF fd.category = <<>> THEN <<>>
        ELSE <<Line("Categories:", CommaJoined(fd.category))>>)
    \o LineIf("Editor:", fd.managingEditor)
    \o <<Line("Description:", fd.description)>>
    \o (IF Len(its) > 0 THEN <<Blank>> ELSE <<>>)

\* An item's lines after its title.
ItemRest(item) ==
    LineIf("Author:", item.author)
    \o LineIf("Published:", item.pubDate)
    \o <<Line("Link:", item.link)>>
    \o LineIf("Categories:", item.category)
    \o (IF item.description = <<>> THEN <<>> ELSE <<Blank, item.description>>)

C9_StripIdempotent ==
    /\ strip_html_tags(strip_html_tags(html_unescape(raw)))
        = strip_html_tags(html_unescape(raw))
    /\ strip_html_tags(strip_html_tags(raw)) = strip_html_tags(raw)
    /\ pc \in {"extracted", "formatted"} => strip_html_tags(desc) = desc
    /\ pc = "formatted" => line = desc

\* A description that lost a tag and still holds a '<' and a '>' was
\* stripped a second time.
C9_Witness ==
    /\ pc = "formatted"
    /\ Len(desc) < Len(raw)
    /\ "<" \in Range(desc)
    /\ ">" \in Range(desc)
    /\ "&lt;" \in Range(raw)
    /\ line = desc

====
